---- MODULE Spec2Model ----
(***************************************************************************)
(* A model of the CHIP-8 interpreter of src/chip.c: the machine state, the *)
(* fetch/decode/execute cycle and the instruction handlers.                *)
(*                                                                         *)
(* The handlers are operators from a machine-state record to a machine-    *)
(* state record, composed in the order in which instruction_cycle runs the *)
(* C statements.  One action per handler applies instruction_cycle when    *)
(* the word at the program counter dispatches to that handler.             *)
(***************************************************************************)
EXTENDS Integers, Sequences, FiniteSets, TLC

\* ------------------------------------------------------------------------
\* Hardware constants (chip.c, lines 19-25 and 606)
\* ------------------------------------------------------------------------
MEMORY_SIZE == 4096
REGISTER_COUNT == 16
STACK_SIZE == 24
OPCODE_SIZE == 2
TIMER_RATE == 60
DISPLAY_WIDTH == 64
DISPLAY_HEIGHT == 32
SPRITE_SIZE == 5

\* DisplayMode enumeration
WRAP == 0
CLAMP == 1

\* Program entry offset: the initial value of pc
PC_INITIAL == 512

\* ------------------------------------------------------------------------
\* Bounds of the model
\* ------------------------------------------------------------------------
\* instruction cycles a run may execute
MaxSteps == 60
\* longest chain of nested calls a program of the call family makes
MaxCalls == 25
\* how many values around each edge of the byte range 0, 127/128, 255 are
\* drawn as register contents
ByteEdge == 0
\* how many registers next to V0 and next to VF are drawn as operands
RegEdge == 0
\* how many sprite coordinates around 0, the screen's edges and 255 are drawn
CoordEdge == 0

VARIABLES
    memory,            \* uint8_t memory[MEMORY_SIZE]
    registers,         \* uint8_t registers[REGISTER_COUNT]
    stack,             \* uint16_t stack[STACK_SIZE]
    display,           \* uint8_t display[DISPLAY_WIDTH * DISPLAY_HEIGHT]
    pc,                \* uint16_t pc
    address_register,  \* uint16_t address_register
    stack_register,    \* uint8_t stack_register
    delay_timer,       \* uint8_t delay_timer
    sound_timer,       \* uint8_t sound_timer
    running,           \* bool running
    displaymode,       \* WRAP or CLAMP, fixed at startup
    timer_start,       \* static uint32_t start of instruction_cycle
    ticks,             \* the value SDL_GetTicks() returns (ms)
    keystates,         \* the input lines (0..15) currently asserted
    ips,               \* uint32_t ips of main, fixed at startup
    cycle_start,       \* uint32_t start of main's cycle loop
    host_ms,           \* the time one iteration of the loop costs the host
    host_order,        \* the byte order of the host: "little" or "big"
    quit_event,        \* an SDL_QUIT or escape key event waits in SDL's queue
    exit_status,       \* "none" while the process lives, else how it ended
    oob,               \* out-of-range array accesses made so far
    trace              \* executed cycles: address, opcode, pc left, alive

vars == <<memory, registers, stack, display, pc, address_register,
          stack_register, delay_timer, sound_timer, running, displaymode,
          timer_start, ticks, keystates, ips, cycle_start, host_ms,
          host_order, quit_event,
          exit_status, oob, trace>>

\* ------------------------------------------------------------------------
\* Fixed-width arithmetic
\* ------------------------------------------------------------------------
Byte == 0..255

u8(n) == n % 256

u16(n) == n % 65536

\* (uint32_t)(a - b) >= d for a, b below 2^31 and 0 < d < 2^31: when a < b the
\* difference wraps to a - b + 2^32, which is at least 2^31
u32_diff_ge(a, b, d) == IF a >= b THEN a - b >= d ELSE TRUE

Pow2(n) == CASE n = 0 -> 1 [] n = 1 -> 2 [] n = 2 -> 4 [] n = 3 -> 8
             [] n = 4 -> 16 [] n = 5 -> 32 [] n = 6 -> 64 [] n = 7 -> 128
             [] n = 8 -> 256 [] n = 9 -> 512 [] n = 10 -> 1024
             [] n = 11 -> 2048 [] n = 12 -> 4096 [] n = 13 -> 8192
             [] n = 14 -> 16384 [] n = 15 -> 32768 [] OTHER -> 65536

\* bit k (0 = least significant) of n
Bit(n, k) == (n \div Pow2(k)) % 2

RECURSIVE BitOp(_, _, _, _)
\* bitwise combination of the low w bits of a and b; op is "and", "or", "xor"
BitOp(op, a, b, w) ==
    IF w = 0 THEN 0
    ELSE LET x == a % 2
             y == b % 2
             r == CASE op = "and" -> IF x = 1 /\ y = 1 THEN 1 ELSE 0
                    [] op = "or" -> IF x = 1 \/ y = 1 THEN 1 ELSE 0
                    [] OTHER -> IF x # y THEN 1 ELSE 0
         IN r + 2 * BitOp(op, a \div 2, b \div 2, w - 1)

BitAnd(a, b) == BitOp("and", a, b, 16)

BitOr(a, b) == BitOp("or", a, b, 16)

BitXor(a, b) == BitOp("xor", a, b, 16)

\* ------------------------------------------------------------------------
\* The machine state as one record, and the inputs of one cycle
\* ------------------------------------------------------------------------
State == [memory |-> memory, registers |-> registers, stack |-> stack,
          display |-> display, pc |-> pc,
          address_register |-> address_register,
          stack_register |-> stack_register, delay_timer |-> delay_timer,
          sound_timer |-> sound_timer, running |-> running,
          displaymode |-> displaymode, timer_start |-> timer_start,
          exit_status |-> exit_status, oob |-> oob,
          host_order |-> host_order]

\* What a cycle reads from outside the machine: the clock, the keyboard, the
\* random generator, and the outcome of an out-of-range array access, which C
\* leaves undefined: ub is what happens to an out-of-range store, val is what
\* an out-of-range load yields.
UBKinds == {"ignored", "fault", "registers"}

Inputs(now, keys) ==
    [now : {now}, keys : {keys}, quit : {FALSE}, rand : {0, 254},
     ub : UBKinds, val : {0, 255}]

Input0(now, keys) ==
    [now |-> now, keys |-> keys, quit |-> FALSE, rand |-> 0,
     ub |-> "ignored", val |-> 0]

\* ERROR / ERRCHK: running = false; exit(EXIT_FAILURE)
ERROR(s) == [s EXCEPT !.running = FALSE, !.exit_status = "EXIT_FAILURE"]

\* exit(EXIT_FAILURE) of the unknown-operation branches of instruction_cycle
unknown_operation(s) == [s EXCEPT !.exit_status = "EXIT_FAILURE"]

Alive(s) == s.exit_status = "none"

\* memory[a] as an rvalue
MemRead(s, a, in) == IF a < MEMORY_SIZE THEN s.memory[a] ELSE in.val

\* the state after evaluating memory[a] as an rvalue
MemReadState(s, a, in) ==
    IF a < MEMORY_SIZE THEN s
    ELSE LET t == [s EXCEPT !.oob = @ \cup {<<"memory", a>>}]
         IN IF in.ub = "fault" THEN [t EXCEPT !.exit_status = "SIGSEGV"]
            ELSE t

\* memory[a] = v
MemWrite(s, a, v, in) ==
    IF a < MEMORY_SIZE THEN [s EXCEPT !.memory[a] = v]
    ELSE LET t == [s EXCEPT !.oob = @ \cup {<<"memory", a>>}]
         IN CASE in.ub = "fault" -> [t EXCEPT !.exit_status = "SIGSEGV"]
              [] in.ub = "registers" ->
                   [t EXCEPT !.registers[(a - MEMORY_SIZE) % REGISTER_COUNT] = v]
              [] OTHER -> t

\* ------------------------------------------------------------------------
\* Instruction handlers.  Each takes the state left by the fetch (pc already
\* advanced) and returns the state after the handler.
\* ------------------------------------------------------------------------

\* display_idx: the two ERRCHKs, then i + j * DISPLAY_WIDTH
display_idx_ok(i, j) == i < DISPLAY_WIDTH /\ j < DISPLAY_HEIGHT

display_idx(i, j) == i + j * DISPLAY_WIDTH

\* cls that clears the first row only
cls_first_row(s) ==
    [s EXCEPT !.display = [k \in DOMAIN s.display |->
                              IF k < DISPLAY_WIDTH THEN 0 ELSE s.display[k]]]

\* 00E0
cls(s) == [s EXCEPT !.display = [k \in DOMAIN s.display |-> 0]]

\* 00EE
ret(s) ==
    IF s.stack_register = 0 THEN ERROR(s)
    ELSE [s EXCEPT !.stack_register = s.stack_register - 1,
                   !.pc = s.stack[s.stack_register - 1]]

\* 0NNN
chip8_syscall(s, addr) == s

\* jmp without its ERRCHK
jmp_unguarded(s, addr) == [s EXCEPT !.pc = addr]

\* 1NNN: the operands of pc - OPCODE_SIZE != addr are converted to size_t, so
\* the difference wraps for pc < OPCODE_SIZE and never equals addr
jmp(s, addr) ==
    IF s.pc >= OPCODE_SIZE /\ s.pc - OPCODE_SIZE = addr THEN ERROR(s)
    ELSE [s EXCEPT !.pc = addr]

\* call with the pre-fetch address pushed
call_pushes_own_address(s, addr) ==
    IF ~(s.stack_register < STACK_SIZE) THEN ERROR(s)
    ELSE [s EXCEPT !.stack[s.stack_register] = s.pc - OPCODE_SIZE,
                   !.stack_register = s.stack_register + 1,
                   !.pc = addr]

\* call without its ERRCHK
call_unchecked(s, addr) ==
    [s EXCEPT !.stack = [k \in DOMAIN s.stack |->
                            IF k = s.stack_register THEN s.pc ELSE s.stack[k]],
              !.stack_register = s.stack_register + 1,
              !.pc = addr]

\* 2NNN
call(s, addr) ==
    IF ~(s.stack_register < STACK_SIZE) THEN ERROR(s)
    ELSE [s EXCEPT !.stack[s.stack_register] = s.pc,
                   !.stack_register = s.stack_register + 1,
                   !.pc = addr]

\* pc += OPCODE_SIZE
skip(s) == [s EXCEPT !.pc = u16(s.pc + OPCODE_SIZE)]

\* 3XNN
se(s, vx, value) == IF s.registers[vx] = value THEN skip(s) ELSE s

\* 4XNN
sne(s, vx, value) == IF s.registers[vx] # value THEN skip(s) ELSE s

\* 5XY0
se_reg(s, vx, vy) == IF s.registers[vx] = s.registers[vy] THEN skip(s) ELSE s

\* 6XNN
ld(s, vx, val) == [s EXCEPT !.registers[vx] = val]

\* 7XNN
add(s, vx, val) == [s EXCEPT !.registers[vx] = u8(s.registers[vx] + val)]

\* 8XY0
ld_reg(s, vx, vy) == [s EXCEPT !.registers[vx] = s.registers[vy]]

\* 8XY1
or_reg(s, vx, vy) ==
    [s EXCEPT !.registers[vx] = BitOr(s.registers[vx], s.registers[vy])]

\* 8XY2
and_reg(s, vx, vy) ==
    [s EXCEPT !.registers[vx] = BitAnd(s.registers[vx], s.registers[vy])]

\* 8XY3
xor_reg(s, vx, vy) ==
    [s EXCEPT !.registers[vx] = BitXor(s.registers[vx], s.registers[vy])]

\* 8XY4: registers[vx] += registers[vy]; then
\* registers[0xf] = registers[vy] > registers[vx], read after the first store
add_reg(s, vx, vy) ==
    LET s1 == [s EXCEPT !.registers[vx] = u8(s.registers[vx] + s.registers[vy])]
    IN [s1 EXCEPT !.registers[15] =
            IF s1.registers[vy] > s1.registers[vx] THEN 1 ELSE 0]

\* 8XY5: registers[0xf] = registers[vx] > registers[vy]; then
\* registers[vx] -= registers[vy], read after the flag store
sub_reg(s, vx, vy) ==
    LET s1 == [s EXCEPT !.registers[15] =
                    IF s.registers[vx] > s.registers[vy] THEN 1 ELSE 0]
    IN [s1 EXCEPT !.registers[vx] = u8(s1.registers[vx] - s1.registers[vy])]

\* 8XY6
shr_reg(s, vx) ==
    LET s1 == [s EXCEPT !.registers[15] = s.registers[vx] % 2]
    IN [s1 EXCEPT !.registers[vx] = s1.registers[vx] \div 2]

\* 8XY7
subn_reg(s, vx, vy) ==
    LET s1 == [s EXCEPT !.registers[15] =
                    IF s.registers[vy] > s.registers[vx] THEN 1 ELSE 0]
    IN [s1 EXCEPT !.registers[vx] = u8(s1.registers[vy] - s1.registers[vx])]

\* 8XYE
shl_reg(s, vx) ==
    LET s1 == [s EXCEPT !.registers[15] = s.registers[vx] \div 128]
    IN [s1 EXCEPT !.registers[vx] = u8(s1.registers[vx] * 2)]

\* 9XY0
sne_reg(s, vx, vy) == IF s.registers[vx] # s.registers[vy] THEN skip(s) ELSE s

\* ANNN
ld_addr(s, addr) == [s EXCEPT !.address_register = addr]

\* BNNN
jmp_relative(s, offset) == [s EXCEPT !.pc = u16(s.registers[0] + offset)]

\* CXNN: (uint8_t)(rand() % 255) & mask
rnd(s, vx, mask, in) ==
    [s EXCEPT !.registers[vx] = BitAnd(u8(in.rand % 255), mask)]

\* the clamp test off by one: > where draw has >=
draw_coord_clamp_off_by_one(mode, i0, j0, i1, j1) ==
    IF mode = WRAP
    THEN [i |-> u8((i0 + i1) % DISPLAY_WIDTH),
          j |-> u8((j0 + j1) % DISPLAY_HEIGHT), brk |-> FALSE]
    ELSE [i |-> u8(i0 + i1), j |-> u8(j0 + j1),
          brk |-> u8(i0 + i1) > DISPLAY_WIDTH \/ u8(j0 + j1) > DISPLAY_HEIGHT]

\* the coordinate policy of draw for pixel offset (i1, j1): the cell (i, j)
\* as stored in the uint8_t locals, and whether the clamp policy breaks out
\* of the row
draw_coord(mode, i0, j0, i1, j1) ==
    IF mode = WRAP
    THEN [i |-> u8((i0 + i1) % DISPLAY_WIDTH),
          j |-> u8((j0 + j1) % DISPLAY_HEIGHT), brk |-> FALSE]
    ELSE [i |-> u8(i0 + i1), j |-> u8(j0 + j1),
          brk |-> u8(i0 + i1) >= DISPLAY_WIDTH \/ u8(j0 + j1) >= DISPLAY_HEIGHT]

\* the flag assigned from every pixel, so that the last pixel decides it
draw_pixel_last_decides(s, k) ==
    IF k \notin DOMAIN s.display
    THEN [s EXCEPT !.oob = @ \cup {<<"display", k>>}]
    ELSE [s EXCEPT !.registers[15] = IF s.display[k] # 0 THEN 1 ELSE 0,
                   !.display[k] = BitXor(@, 1)]

\* if (display[k]) registers[0xf] = 1; display[k] ^= 1;
draw_pixel(s, k) ==
    IF k \notin DOMAIN s.display
    THEN [s EXCEPT !.oob = @ \cup {<<"display", k>>}]
    ELSE [s EXCEPT !.registers[15] = IF s.display[k] # 0 THEN 1 ELSE @,
                   !.display[k] = BitXor(@, 1)]

\* one iteration of the inner loop of draw, for row j1 and column i1; acc is
\* the state and whether the loop has ended (break, or the process is gone)
draw_bit(acc, i0, j0, j1, i1, in) ==
    LET s == acc.s
        a == s.address_register + j1
        s1 == MemReadState(s, a, in)
        c == draw_coord(s.displaymode, i0, j0, i1, j1)
    IN IF acc.brk THEN acc
       ELSE IF ~Alive(s1) THEN [s |-> s1, brk |-> TRUE]
       ELSE IF Bit(MemRead(s, a, in), 7 - i1) = 0 THEN [s |-> s1, brk |-> FALSE]
       ELSE IF c.brk THEN [s |-> s1, brk |-> TRUE]
       ELSE IF ~display_idx_ok(c.i, c.j) THEN [s |-> ERROR(s1), brk |-> TRUE]
       ELSE [s |-> draw_pixel(s1, display_idx(c.i, c.j)), brk |-> FALSE]

RECURSIVE draw_row(_, _, _, _, _, _)
\* the inner loop of draw, for (i1 = 0; i1 < 8; ++i1), from column i1 on
draw_row(acc, i0, j0, j1, i1, in) ==
    IF i1 >= 8 THEN acc.s
    ELSE draw_row(draw_bit(acc, i0, j0, j1, i1, in), i0, j0, j1, i1 + 1, in)

RECURSIVE draw_loop(_, _, _, _, _, _)
\* the outer loop of draw, for (j1 = 0; j1 < height; ++j1), from row j1 on
draw_loop(s, i0, j0, height, j1, in) ==
    IF ~Alive(s) \/ j1 >= height THEN s
    ELSE draw_loop(draw_row([s |-> s, brk |-> FALSE], i0, j0, j1, 0, in),
                   i0, j0, height, j1 + 1, in)

\* DXYN: the coordinates are read before the flag is reset
draw(s, vx, vy, height, in) ==
    draw_loop([s EXCEPT !.registers[15] = 0],
              s.registers[vx], s.registers[vy], height, 0, in)

\* keydown(code) and the state after it: keys[] has 16 entries
keydown(code, in) == IF code < 16 THEN code \in in.keys ELSE in.val # 0

keydown_state(s, code, in) ==
    IF code < 16 THEN s
    ELSE LET t == [s EXCEPT !.oob = @ \cup {<<"keys", code>>}]
         IN IF in.ub = "fault" THEN [t EXCEPT !.exit_status = "SIGSEGV"]
            ELSE t

\* EX9E
skip_p(s, vx, in) ==
    LET s1 == keydown_state(s, s.registers[vx], in)
    IN IF Alive(s1) /\ keydown(s.registers[vx], in) THEN skip(s1) ELSE s1

\* EXA1
skip_np(s, vx, in) ==
    LET s1 == keydown_state(s, s.registers[vx], in)
    IN IF Alive(s1) /\ ~keydown(s.registers[vx], in) THEN skip(s1) ELSE s1

RECURSIVE getkey_loop(_, _, _, _)
\* the loop of getkey from line i on
getkey_loop(s, vx, i, in) ==
    IF i >= 16 THEN s
    ELSE IF keydown(i, in) THEN [s EXCEPT !.registers[vx] = i]
    ELSE IF i = 15 THEN [s EXCEPT !.pc = u16(s.pc - OPCODE_SIZE)]
    ELSE getkey_loop(s, vx, i + 1, in)

\* getkey without the rewind of the program counter
getkey_no_rewind(s, vx, in) ==
    IF in.keys = {} THEN s ELSE getkey_loop(s, vx, 0, in)

\* FX0A
getkey(s, vx, in) == getkey_loop(s, vx, 0, in)

\* FX07
ld_delay_to_reg(s, vx) == [s EXCEPT !.registers[vx] = s.delay_timer]

\* FX15
ld_reg_to_delay(s, vx) == [s EXCEPT !.delay_timer = s.registers[vx]]

\* FX18
ld_sound(s, vx) == [s EXCEPT !.sound_timer = s.registers[vx]]

\* FX1E: the flag is stored first, registers[vx] is read again for the sum
add_addr(s, vx) ==
    LET s1 == [s EXCEPT !.registers[15] =
                    IF s.address_register + s.registers[vx] > 4095 THEN 1 ELSE 0]
    IN [s1 EXCEPT !.address_register = u16(@ + s1.registers[vx])]

\* ld_sprite without its ERRCHK
ld_sprite_unchecked(s, vx) ==
    [s EXCEPT !.address_register = s.registers[vx] * SPRITE_SIZE]

\* FX29
ld_sprite(s, vx) ==
    IF ~(s.registers[vx] <= 15) THEN ERROR(s)
    ELSE [s EXCEPT !.address_register = s.registers[vx] * SPRITE_SIZE]

\* bcd with the tens digit left unreduced
bcd_tens_unreduced(s, vx, in) ==
    LET s1 == MemWrite(s, s.address_register, s.registers[vx] \div 100, in)
        s2 == IF Alive(s1)
              THEN MemWrite(s1, s1.address_register + 1,
                            s1.registers[vx] \div 10, in)
              ELSE s1
    IN IF Alive(s2)
       THEN MemWrite(s2, s2.address_register + 2, s2.registers[vx] % 10, in)
       ELSE s2

\* FX33
bcd(s, vx, in) ==
    LET s1 == MemWrite(s, s.address_register, s.registers[vx] \div 100, in)
        s2 == IF Alive(s1)
              THEN MemWrite(s1, s1.address_register + 1,
                            (s1.registers[vx] \div 10) % 10, in)
              ELSE s1
    IN IF Alive(s2)
       THEN MemWrite(s2, s2.address_register + 2, s2.registers[vx] % 10, in)
       ELSE s2

RECURSIVE reg_dump_loop(_, _, _, _)
\* the loop of reg_dump from register i on
reg_dump_loop(s, vx, i, in) ==
    IF ~Alive(s) \/ i > vx THEN s
    ELSE reg_dump_loop(MemWrite(s, s.address_register + i, s.registers[i], in),
                       vx, i + 1, in)

\* FX55
reg_dump(s, vx, in) ==
    IF ~(vx < REGISTER_COUNT) THEN ERROR(s) ELSE reg_dump_loop(s, vx, 0, in)

RECURSIVE reg_load_loop(_, _, _)
\* the loop of reg_load from register i on
reg_load_loop(s, vx, i) ==
    IF i > vx THEN s
    ELSE IF ~(s.address_register + i < MEMORY_SIZE) THEN ERROR(s)
    ELSE reg_load_loop(
             [s EXCEPT !.registers[i] = s.memory[s.address_register + i]],
             vx, i + 1)

\* reg_load with the loop bound i < vx
reg_load_exclusive(s, vx) ==
    IF ~(vx < REGISTER_COUNT) THEN ERROR(s) ELSE reg_load_loop(s, vx - 1, 0)

\* FX65
reg_load(s, vx) ==
    IF ~(vx < REGISTER_COUNT) THEN ERROR(s) ELSE reg_load_loop(s, vx, 0)

\* ------------------------------------------------------------------------
\* instruction_cycle: timer driver, fetch, decode, execute
\* ------------------------------------------------------------------------

\* the timer driver decrementing without its tests for zero
timer_driver_wraps(s, in) ==
    IF u32_diff_ge(in.now, s.timer_start, 1000 \div TIMER_RATE)
    THEN [s EXCEPT !.delay_timer = u8(@ - 1),
                   !.sound_timer = u8(@ - 1),
                   !.timer_start = in.now]
    ELSE s

\* the timer driver at the head of instruction_cycle; end = SDL_GetTicks()
timer_driver(s, in) ==
    IF u32_diff_ge(in.now, s.timer_start, 1000 \div TIMER_RATE)
    THEN [s EXCEPT !.delay_timer = IF @ # 0 THEN @ - 1 ELSE @,
                   !.sound_timer = IF @ # 0 THEN @ - 1 ELSE @,
                   !.timer_start = in.now]
    ELSE s

\* Reverses byte order 0xAABB -> 0xBBAA
convert_endianess(val) == u16((val % 256) * 256) + (val \div 256)

\* *((uint16_t*)(&memory[a])): the two bytes in the byte order of the host
\* the Makefile's -march=native builds for
host_load16(s, a, in) ==
    IF s.host_order = "big"
    THEN 256 * MemRead(s, a, in) + MemRead(s, a + 1, in)
    ELSE MemRead(s, a, in) + 256 * MemRead(s, a + 1, in)

\* the instruction word at the program counter
fetch(s, in) == convert_endianess(host_load16(s, s.pc, in))

\* the state after the fetch: both bytes read, pc += OPCODE_SIZE
fetch_state(s, in) ==
    LET s1 == MemReadState(MemReadState(s, s.pc, in), s.pc + 1, in)
    IN IF Alive(s1) THEN [s1 EXCEPT !.pc = u16(s.pc + OPCODE_SIZE)] ELSE s1

\* Decode
NNN(opcode) == opcode % 4096

NN(opcode) == opcode % 256

N(opcode) == opcode % 16

X(opcode) == (opcode \div 256) % 16

Y(opcode) == (opcode \div 16) % 16

\* the handler the switch of instruction_cycle selects for a word
handler_of(opcode) ==
    LET class == opcode \div 4096
    IN CASE class = 0 -> IF opcode = 238 THEN "ret"
                         ELSE IF opcode = 224 THEN "cls" ELSE "chip8_syscall"
         [] class = 1 -> "jmp"
         [] class = 2 -> "call"
         [] class = 3 -> "se"
         [] class = 4 -> "sne"
         [] class = 5 -> "se_reg"
         [] class = 6 -> "ld"
         [] class = 7 -> "add"
         [] class = 8 ->
              CASE N(opcode) = 0 -> "ld_reg"
                [] N(opcode) = 1 -> "or_reg"
                [] N(opcode) = 2 -> "and_reg"
                [] N(opcode) = 3 -> "xor_reg"
                [] N(opcode) = 4 -> "add_reg"
                [] N(opcode) = 5 -> "sub_reg"
                [] N(opcode) = 6 -> "shr_reg"
                [] N(opcode) = 7 -> "subn_reg"
                [] N(opcode) = 14 -> "shl_reg"
                [] OTHER -> "unknown"
         [] class = 9 -> "sne_reg"
         [] class = 10 -> "ld_addr"
         [] class = 11 -> "jmp_relative"
         [] class = 12 -> "rnd"
         [] class = 13 -> "draw"
         [] class = 14 ->
              CASE NN(opcode) = 158 -> "skip_p"
                [] NN(opcode) = 161 -> "skip_np"
                [] OTHER -> "unknown"
         [] OTHER ->
              CASE NN(opcode) = 10 -> "getkey"
                [] NN(opcode) = 7 -> "ld_delay_to_reg"
                [] NN(opcode) = 21 -> "ld_reg_to_delay"
                [] NN(opcode) = 24 -> "ld_sound"
                [] NN(opcode) = 30 -> "add_addr"
                [] NN(opcode) = 41 -> "ld_sprite"
                [] NN(opcode) = 51 -> "bcd"
                [] NN(opcode) = 85 -> "reg_dump"
                [] NN(opcode) = 101 -> "reg_load"
                [] OTHER -> "unknown"

\* Execute: the handler call of the selected branch
execute(s, opcode, in) ==
    LET h == handler_of(opcode)
        x == X(opcode)
        y == Y(opcode)
    IN CASE h = "ret" -> ret(s)
         [] h = "cls" -> cls(s)
         [] h = "chip8_syscall" -> chip8_syscall(s, NNN(opcode))
         [] h = "jmp" -> jmp(s, NNN(opcode))
         [] h = "call" -> call(s, NNN(opcode))
         [] h = "se" -> se(s, x, NN(opcode))
         [] h = "sne" -> sne(s, x, NN(opcode))
         [] h = "se_reg" -> se_reg(s, x, y)
         [] h = "ld" -> ld(s, x, NN(opcode))
         [] h = "add" -> add(s, x, NN(opcode))
         [] h = "ld_reg" -> ld_reg(s, x, y)
         [] h = "or_reg" -> or_reg(s, x, y)
         [] h = "and_reg" -> and_reg(s, x, y)
         [] h = "xor_reg" -> xor_reg(s, x, y)
         [] h = "add_reg" -> add_reg(s, x, y)
         [] h = "sub_reg" -> sub_reg(s, x, y)
         [] h = "shr_reg" -> shr_reg(s, x)
         [] h = "subn_reg" -> subn_reg(s, x, y)
         [] h = "shl_reg" -> shl_reg(s, x)
         [] h = "sne_reg" -> sne_reg(s, x, y)
         [] h = "ld_addr" -> ld_addr(s, NNN(opcode))
         [] h = "jmp_relative" -> jmp_relative(s, NNN(opcode))
         [] h = "rnd" -> rnd(s, x, NN(opcode), in)
         [] h = "draw" -> draw(s, x, y, N(opcode), in)
         [] h = "skip_p" -> skip_p(s, x, in)
         [] h = "skip_np" -> skip_np(s, x, in)
         [] h = "getkey" -> getkey(s, x, in)
         [] h = "ld_delay_to_reg" -> ld_delay_to_reg(s, x)
         [] h = "ld_reg_to_delay" -> ld_reg_to_delay(s, x)
         [] h = "ld_sound" -> ld_sound(s, x)
         [] h = "add_addr" -> add_addr(s, x)
         [] h = "ld_sprite" -> ld_sprite(s, x)
         [] h = "bcd" -> bcd(s, x, in)
         [] h = "reg_dump" -> reg_dump(s, x, in)
         [] h = "reg_load" -> reg_load(s, x)
         [] OTHER -> unknown_operation(s)

instruction_cycle(s, in) ==
    LET s1 == timer_driver(s, in)
        s2 == fetch_state(s1, in)
    IN IF Alive(s2) THEN execute(s2, fetch(s1, in), in) ELSE s2

\* ------------------------------------------------------------------------
\* Start-up: load_sprites, load_rom, and the initial values of the statics
\* ------------------------------------------------------------------------
sprites ==
    <<240, 144, 144, 144, 240,   32, 96, 32, 32, 112,
      240, 16, 240, 128, 240,    240, 16, 240, 16, 240,
      144, 144, 240, 16, 16,     240, 128, 240, 16, 240,
      240, 128, 240, 144, 240,   240, 16, 32, 64, 64,
      240, 144, 240, 144, 240,   240, 144, 240, 16, 240,
      240, 144, 240, 144, 144,   224, 144, 224, 144, 224,
      240, 128, 128, 128, 240,   224, 144, 144, 144, 224,
      240, 128, 240, 128, 240,   240, 128, 240, 128, 128>>

\* the static arrays as the C start-up zeroes them
zeroed_memory == [a \in 0..(MEMORY_SIZE - 1) |-> 0]

zeroed_display == [k \in 0..(DISPLAY_WIDTH * DISPLAY_HEIGHT - 1) |-> 0]

\* memcpy(&memory[0], sprites, sizeof(sprites))
load_sprites ==
    [a \in 0..(MEMORY_SIZE - 1) |->
        IF a < Len(sprites) THEN sprites[a + 1] ELSE zeroed_memory[a]]

\* load_rom: memory[pc++] = byte for every byte of the file; rom is the
\* file's bytes
load_rom(mem, rom) ==
    [a \in PC_INITIAL..(PC_INITIAL + Len(rom) - 1) |-> rom[a - PC_INITIAL + 1]]
        @@ mem

\* a program file given as its 16-bit words, stored big-endian
RomOf(words) ==
    [k \in 1..(2 * Len(words)) |->
        IF k % 2 = 1 THEN words[(k + 1) \div 2] \div 256
        ELSE words[k \div 2] % 256]

\* the state main reaches before its cycle loop, for a program file and a
\* --displaymode argument
BootOn(rom, mode, rate, cost, order) ==
    /\ memory = load_rom(load_sprites, rom)
    /\ registers = [r \in 0..(REGISTER_COUNT - 1) |-> 0]
    /\ stack = [k \in 0..(STACK_SIZE - 1) |-> 0]
    /\ display = zeroed_display
    /\ pc = PC_INITIAL
    /\ address_register = 0
    /\ stack_register = 0
    /\ delay_timer = 0
    /\ sound_timer = 0
    /\ running = TRUE
    /\ displaymode = mode
    /\ timer_start = 0
    /\ ticks = 0
    /\ keystates = {}
    /\ ips = rate
    /\ cycle_start = 0
    /\ host_ms = cost
    /\ host_order = order
    /\ quit_event = FALSE
    /\ exit_status = "none"
    /\ oob = {}
    /\ trace = <<>>

\* start-up on a little-endian host
BootWith(rom, mode, rate, cost) == BootOn(rom, mode, rate, cost, "little")

\* start-up without an --ips argument, on a host that takes a millisecond for
\* one iteration of the loop
Boot(rom, mode) == BootWith(rom, mode, 200, 1)

\* ------------------------------------------------------------------------
\* One iteration of main's cycle loop
\* ------------------------------------------------------------------------

\* running = eval_input(); instruction_cycle(); and, when the loop condition
\* then fails, the dumps and return EXIT_SUCCESS
main_cycle(s, in) ==
    LET s1 == instruction_cycle([s EXCEPT !.running = ~in.quit], in)
    IN IF Alive(s1) /\ ~s1.running
       THEN [s1 EXCEPT !.exit_status = "EXIT_SUCCESS"] ELSE s1

\* the inputs that decide the word fetched: an out-of-range fetch reads
\* whatever lies behind the array
FetchInputs(s, now, keys) ==
    IF s.pc + 1 < MEMORY_SIZE THEN {Input0(now, keys)} ELSE Inputs(now, keys)

\* the outcomes of one iteration, each with the word it fetched: the outcome
\* of undefined behaviour and the random number matter only to a cycle that
\* meets them
\* quit: eval_input finds an SDL_QUIT or escape key event
cycle_outcomes(s, now, keys, quit) ==
    LET in0 == [Input0(now, keys) EXCEPT !.quit = quit]
    IN UNION {IF r.oob = s.oob /\ handler_of(fetch(s, in0)) # "rnd"
              THEN {[opcode |-> fetch(s, in0), s |-> r]}
              ELSE {[opcode |-> fetch(s, in),
                     s |-> main_cycle(s, [in EXCEPT !.quit = quit])] :
                       in \in Inputs(now, keys)} :
                 r \in {main_cycle(s, in0)}}

\* the pacing at the end of an iteration: end = SDL_GetTicks(); the loop
\* restarts its period when more than 1000 / ips ms have passed, and sleeps
\* for the rest of the period otherwise
pace(now, start, rate, cost) ==
    LET end == now + cost
        elapsed == end - start
        time_per_cycle == 1000 \div rate
    IN IF elapsed > time_per_cycle
       THEN [ticks |-> end, cycle_start |-> end]
       ELSE [ticks |-> end + (time_per_cycle - elapsed), cycle_start |-> start]

Apply(s) ==
    /\ memory' = s.memory
    /\ registers' = s.registers
    /\ stack' = s.stack
    /\ display' = s.display
    /\ pc' = s.pc
    /\ address_register' = s.address_register
    /\ stack_register' = s.stack_register
    /\ delay_timer' = s.delay_timer
    /\ sound_timer' = s.sound_timer
    /\ running' = s.running
    /\ displaymode' = s.displaymode
    /\ timer_start' = s.timer_start
    /\ exit_status' = s.exit_status
    /\ oob' = s.oob

\* the handler the next iteration of the loop dispatches to
Dispatches(h) ==
    \E in \in FetchInputs(State, ticks, keystates) :
        handler_of(fetch(State, in)) = h

\* one iteration of the loop that dispatches to handler h: the machine is
\* still in the loop and takes a cycle with one of the inputs it can see
Step(h) ==
    /\ exit_status = "none"
    /\ running
    /\ Len(trace) < MaxSteps
    /\ \E o \in cycle_outcomes(State, ticks, keystates, quit_event) :
          /\ handler_of(o.opcode) = h
          /\ Apply(o.s)
          /\ trace' = Append(trace, [at |-> pc, opcode |-> o.opcode,
                                     pc |-> o.s.pc, ok |-> Alive(o.s),
                                     registers |-> registers,
                                     address_register |-> address_register,
                                     now |-> ticks])
          /\ IF Alive(o.s)
             THEN \E p \in {pace(ticks, cycle_start, ips, host_ms)} :
                     /\ ticks' = p.ticks
                     /\ cycle_start' = p.cycle_start
             ELSE UNCHANGED <<ticks, cycle_start>>
    /\ UNCHANGED <<keystates, ips, host_ms, host_order, quit_event>>

Cycle_ret ==
    /\ Dispatches("ret")
    /\ Step("ret")

Cycle_jmp ==
    /\ Dispatches("jmp")
    /\ Step("jmp")

Cycle_call ==
    /\ Dispatches("call")
    /\ Step("call")

Cycle_ld ==
    /\ Dispatches("ld")
    /\ Step("ld")

Cycle_add_reg ==
    /\ Dispatches("add_reg")
    /\ Step("add_reg")

Cycle_sub_reg ==
    /\ Dispatches("sub_reg")
    /\ Step("sub_reg")

Cycle_shr_reg ==
    /\ Dispatches("shr_reg")
    /\ Step("shr_reg")

Cycle_subn_reg ==
    /\ Dispatches("subn_reg")
    /\ Step("subn_reg")

Cycle_shl_reg ==
    /\ Dispatches("shl_reg")
    /\ Step("shl_reg")

Cycle_ld_addr ==
    /\ Dispatches("ld_addr")
    /\ Step("ld_addr")

Cycle_draw ==
    /\ Dispatches("draw")
    /\ Step("draw")

Cycle_reg_dump ==
    /\ Dispatches("reg_dump")
    /\ Step("reg_dump")

Cycle_reg_load ==
    /\ Dispatches("reg_load")
    /\ Step("reg_load")

Cycle_cls ==
    /\ Dispatches("cls")
    /\ Step("cls")

Cycle_chip8_syscall ==
    /\ Dispatches("chip8_syscall")
    /\ Step("chip8_syscall")

Cycle_se_reg ==
    /\ Dispatches("se_reg")
    /\ Step("se_reg")

Cycle_sne_reg ==
    /\ Dispatches("sne_reg")
    /\ Step("sne_reg")

Cycle_jmp_relative ==
    /\ Dispatches("jmp_relative")
    /\ Step("jmp_relative")

Cycle_getkey ==
    /\ Dispatches("getkey")
    /\ Step("getkey")

Cycle_ld_delay_to_reg ==
    /\ Dispatches("ld_delay_to_reg")
    /\ Step("ld_delay_to_reg")

Cycle_ld_reg_to_delay ==
    /\ Dispatches("ld_reg_to_delay")
    /\ Step("ld_reg_to_delay")

Cycle_ld_sound ==
    /\ Dispatches("ld_sound")
    /\ Step("ld_sound")

Cycle_add_addr ==
    /\ Dispatches("add_addr")
    /\ Step("add_addr")

Cycle_bcd ==
    /\ Dispatches("bcd")
    /\ Step("bcd")

Cycle_unknown ==
    /\ Dispatches("unknown")
    /\ Step("unknown")

\* the user asserts input lines: SDL's keyboard state changes between two
\* iterations of the loop
KeyPress(keys) ==
    /\ exit_status = "none"
    /\ keystates = {}
    /\ keystates' = keys
    /\ UNCHANGED <<memory, registers, stack, display, pc, address_register,
                   stack_register, delay_timer, sound_timer, running,
                   displaymode, timer_start, ticks, ips, cycle_start, host_ms,
                   host_order, quit_event, exit_status, oob, trace>>

\* the user closes the window or presses escape: the event waits in SDL's
\* queue for the next eval_input
QuitRequest ==
    /\ exit_status = "none"
    /\ ~quit_event
    /\ quit_event' = TRUE
    /\ UNCHANGED <<memory, registers, stack, display, pc, address_register,
                   stack_register, delay_timer, sound_timer, running,
                   displaymode, timer_start, ticks, keystates, ips,
                   cycle_start, host_ms, host_order, exit_status, oob, trace>>

Cycle_add ==
    /\ Dispatches("add")
    /\ Step("add")

Cycle_ld_sprite ==
    /\ Dispatches("ld_sprite")
    /\ Step("ld_sprite")

\* ------------------------------------------------------------------------
\* Programs of nested calls: call k sits at CallAt(k) and calls CallAt(k+1),
\* a return follows every call, and the innermost routine is a return
\* ------------------------------------------------------------------------
CallAt(k) == PC_INITIAL + 4 * k

RECURSIVE CallWords(_, _)
CallWords(n, k) ==
    IF k >= n THEN <<238>>
    ELSE <<8192 + CallAt(k + 1), 238>> \o CallWords(n, k + 1)

CallRoms == {RomOf(CallWords(n, 0)) : n \in 0..MaxCalls}

InitCall == \E rom \in CallRoms : Boot(rom, CLAMP)

NextCall == Cycle_call \/ Cycle_ret

SpecCall == InitCall /\ [][NextCall]_vars

\* ------------------------------------------------------------------------
\* Operand samples
\* ------------------------------------------------------------------------
\* register contents: the values next to 0, to the sign bit and to 255
ByteSample ==
    (0..ByteEdge) \cup ((127 - ByteEdge)..(128 + ByteEdge))
        \cup ((255 - ByteEdge)..255)

\* register indices: the registers next to V0 and next to VF
RegSample == (0..RegEdge) \cup ((14 - RegEdge)..15)

\* the jump to itself that ends a program: rejected by jmp's self-jump guard
Halt(k) == 4096 + PC_INITIAL + 2 * k

\* ------------------------------------------------------------------------
\* Programs of one register-register instruction: load Vx, load Vy, 8XYn
\* ------------------------------------------------------------------------
AluFuncs == {4, 5, 6, 7, 14}

AluWords(x, y, a, b, n) ==
    <<24576 + 256 * x + a, 24576 + 256 * y + b,
      32768 + 256 * x + 16 * y + n, Halt(3)>>

AluRoms ==
    {RomOf(AluWords(x, y, a, b, n)) :
        x \in RegSample, y \in RegSample, a \in ByteSample, b \in ByteSample,
        n \in AluFuncs}

InitAlu == \E rom \in AluRoms : Boot(rom, CLAMP)

NextAlu ==
    \/ Cycle_ld
    \/ Cycle_add_reg
    \/ Cycle_sub_reg
    \/ Cycle_shr_reg
    \/ Cycle_subn_reg
    \/ Cycle_shl_reg
    \/ Cycle_jmp

SpecAlu == InitAlu /\ [][NextAlu]_vars

\* ------------------------------------------------------------------------
\* Programs of two sprite draws: set I, load Vx, load Vy, DXYh1, DXYh2, with
\* three rows of sprite data behind the program
\* ------------------------------------------------------------------------
\* Vx: around column 0, the right edge and 255
XSample ==
    (0..CoordEdge)
        \cup ((DISPLAY_WIDTH - 1 - CoordEdge)..(DISPLAY_WIDTH + CoordEdge))
        \cup ((255 - CoordEdge)..255)

\* Vy: around row 0, the bottom edge and 255
YSample ==
    (0..CoordEdge)
        \cup ((DISPLAY_HEIGHT - 1 - CoordEdge)..(DISPLAY_HEIGHT + CoordEdge))
        \cup ((255 - CoordEdge)..255)

HeightSample == {0, 2, 15}

\* the register pairs (X, Y) of the draws
DrawRegs == {<<0, 1>>, <<15, 14>>, <<14, 15>>}

\* the sprite rows 0xFF, 0x01, 0x81 stored behind the program
SpriteData == <<65281, 33024>>

SpriteDataAt == PC_INITIAL + 12

\* the font glyph "7" (0xF0 0x10 0x20 0x40 0x40) and the rows behind the program
SpriteSample == {7 * SPRITE_SIZE, SpriteDataAt}

DrawWords(i, x, y, a, b, h1, h2) ==
    <<40960 + i, 24576 + 256 * x + a, 24576 + 256 * y + b,
      53248 + 256 * x + 16 * y + h1, 53248 + 256 * x + 16 * y + h2, Halt(5)>>
        \o SpriteData

DrawRoms ==
    {RomOf(DrawWords(i, xy[1], xy[2], a, b, h1, h2)) :
        i \in SpriteSample, xy \in DrawRegs, a \in XSample, b \in YSample,
        h1 \in HeightSample, h2 \in HeightSample}

DrawModes == {WRAP, CLAMP}

InitDraw == \E rom \in DrawRoms : \E mode \in DrawModes : Boot(rom, mode)

NextDraw ==
    \/ Cycle_ld_addr
    \/ Cycle_ld
    \/ Cycle_draw
    \/ Cycle_jmp

SpecDraw == InitDraw /\ [][NextDraw]_vars

\* ------------------------------------------------------------------------
\* Programs of a register block store and load: set I, load V0, VE and VF,
\* FN55, overwrite V0, VE and VF, FM65
\* ------------------------------------------------------------------------
\* I: an address in free memory, the addresses around the last one a store
\* of sixteen registers fits at, and the last addresses of memory
AddressSample ==
    {768}
        \cup ((MEMORY_SIZE - REGISTER_COUNT - RegEdge)
                ..(MEMORY_SIZE - REGISTER_COUNT + 1 + RegEdge))
        \cup ((MEMORY_SIZE - 1 - RegEdge)..(MEMORY_SIZE - 1))

BlockWords(i, n, m, a) ==
    <<40960 + i,
      24576 + a, 24576 + 256 * 14 + ((a + 1) % 256), 24576 + 256 * 15 + (255 - a),
      61440 + 256 * n + 85,
      24576 + ((a + 2) % 256), 24576 + 256 * 14 + a, 24576 + 256 * 15 + a,
      61440 + 256 * m + 101,
      Halt(9)>>

BlockRoms ==
    {RomOf(BlockWords(i, n, m, a)) :
        i \in AddressSample, n \in RegSample, m \in RegSample,
        a \in ByteSample}

InitBlock == \E rom \in BlockRoms : Boot(rom, CLAMP)

NextBlock ==
    \/ Cycle_ld_addr
    \/ Cycle_ld
    \/ Cycle_reg_dump
    \/ Cycle_reg_load
    \/ Cycle_jmp

SpecBlock == InitBlock /\ [][NextBlock]_vars

\* ------------------------------------------------------------------------
\* Programs that raise the address register and use it: set I, load Vx,
\* FX1E, FX33, D001
\* ------------------------------------------------------------------------
\* I: free memory, the start of the last page, and the last addresses
AddendSample == ByteSample \cup {1, 199, 253}

BaseSample ==
    {768, MEMORY_SIZE - 256}
        \cup ((MEMORY_SIZE - 4 - RegEdge)..(MEMORY_SIZE - 3))
        \cup {MEMORY_SIZE - 1}

AddrWords(i, x, v) ==
    <<40960 + i, 24576 + 256 * x + v, 61440 + 256 * x + 30,
      61440 + 256 * x + 51, 53248 + 1, Halt(5)>>

AddrRoms ==
    {RomOf(AddrWords(i, x, v)) :
        i \in BaseSample, x \in RegSample, v \in AddendSample}

InitAddr == \E rom \in AddrRoms : Boot(rom, CLAMP)

NextAddr ==
    \/ Cycle_ld_addr
    \/ Cycle_ld
    \/ Cycle_add_addr
    \/ Cycle_bcd
    \/ Cycle_draw
    \/ Cycle_jmp

SpecAddr == InitAddr /\ [][NextAddr]_vars

\* ------------------------------------------------------------------------
\* Programs of one instruction word behind a drawn, cleared and possibly
\* redrawn screen: D005, 00E0, D00h, the word, and two words that end the
\* program (the second for the word that skips)
\* ------------------------------------------------------------------------
\* words of class 0 other than 00E0 and 00EE
SyscallWords == {0, 225, 291, 4095}

\* 5XYn and 9XYn with n # 0
SkipRegWords ==
    {class * 4096 + 256 * x + 16 + n :
        class \in {5, 9}, x \in RegSample, n \in {1, 15}}

\* words the switch of instruction_cycle has no branch for
UnhandledWords ==
    {32768 + 16 + n : n \in (8..13) \cup {15}}
        \cup {57344 + nn : nn \in {0, 157, 159, 160, 162, 255}}
        \cup {61440 + nn : nn \in {0, 8, 11, 52, 86, 255}}

\* one word for each instruction that neither draws nor moves the program
\* counter other than by a skip
PlainWords ==
    {12288, 16384, 20496, 24581, 28677, 36880, 41216, 49407, 57502, 57505,
     61447, 61461, 61464, 61470, 61481, 61491, 61525, 61541}
        \cup {32768 + 16 + n : n \in (0..7) \cup {14}}

WordSample == SyscallWords \cup SkipRegWords \cup UnhandledWords \cup PlainWords

DecodeWords(h, w) == <<53253, 224, 53248 + h, w, Halt(4), Halt(5)>>

DecodeRoms == {RomOf(DecodeWords(h, w)) : h \in {0, SPRITE_SIZE}, w \in WordSample}

InitDecode == \E rom \in DecodeRoms : Boot(rom, CLAMP)

\* the handlers of PlainWords
PlainHandlers ==
    {"se", "sne", "ld", "add", "ld_reg", "or_reg", "and_reg", "xor_reg",
     "add_reg", "sub_reg", "shr_reg", "subn_reg", "shl_reg", "ld_addr", "rnd",
     "skip_p", "skip_np", "ld_delay_to_reg", "ld_reg_to_delay", "ld_sound",
     "add_addr", "ld_sprite", "bcd", "reg_dump", "reg_load"}

\* an iteration of the loop that dispatches to one of them
Cycle_plain == \E h \in PlainHandlers : Dispatches(h) /\ Step(h)

NextDecode ==
    \/ Cycle_draw
    \/ Cycle_cls
    \/ Cycle_chip8_syscall
    \/ Cycle_se_reg
    \/ Cycle_sne_reg
    \/ Cycle_plain
    \/ Cycle_unknown
    \/ Cycle_jmp

SpecDecode == InitDecode /\ [][NextDecode]_vars

\* ------------------------------------------------------------------------
\* Programs of one jump: load V0, then 1NNN or BNNN, with two words behind
\* that end the program
\* ------------------------------------------------------------------------
\* targets: the program's own words, an odd address inside it, an odd address
\* in free memory and the last word of memory
TargetSample ==
    (PC_INITIAL..(PC_INITIAL + 5)) \cup {769, MEMORY_SIZE - 2}

OffsetSample == ByteSample \cup {1, 2}

JumpWords(class, nnn, v) ==
    <<24576 + v, class * 4096 + nnn, Halt(2), Halt(3)>>

JumpRoms ==
    {RomOf(JumpWords(class, nnn, v)) :
        class \in {1, 11}, nnn \in TargetSample, v \in OffsetSample}

InitJump == \E rom \in JumpRoms : Boot(rom, CLAMP)

NextJump ==
    \/ Cycle_ld
    \/ Cycle_jmp
    \/ Cycle_jmp_relative
    \/ Cycle_chip8_syscall
    \/ Cycle_plain
    \/ Cycle_unknown

SpecJump == InitJump /\ [][NextJump]_vars

\* ------------------------------------------------------------------------
\* Programs that set both timers and then poll the delay timer in a loop:
\* load V0, load V1, F015, F118, then F207 and a jump back to it; run at
\* several --ips values on hosts of several speeds
\* ------------------------------------------------------------------------
DelaySample == {2 + ByteEdge, 120}

SoundSample == {0, 1, 3 + ByteEdge}

\* --ips below the timer rate, the default, and 1000
RateSample == {TIMER_RATE \div 2, 200, 1000}

\* milliseconds one iteration of the loop costs the host
CostSample == {0, 1, 3}

TimerWords(a, b) ==
    <<24576 + a, 24576 + 256 + b, 61440 + 21, 61440 + 256 + 24,
      61440 + 512 + 7, 4096 + PC_INITIAL + 8>>

TimerRoms == {RomOf(TimerWords(a, b)) : a \in DelaySample, b \in SoundSample}

InitTimer ==
    \E rom \in TimerRoms : \E rate \in RateSample : \E cost \in CostSample :
        BootWith(rom, CLAMP, rate, cost)

NextTimer ==
    \/ Cycle_ld
    \/ Cycle_ld_reg_to_delay
    \/ Cycle_ld_sound
    \/ Cycle_ld_delay_to_reg
    \/ Cycle_jmp

SpecTimer == InitTimer /\ [][NextTimer]_vars

\* ------------------------------------------------------------------------
\* Programs that wait for a key with the delay timer running: load V0, F015,
\* load Vx, FX0A
\* ------------------------------------------------------------------------
\* the input lines the user asserts: one, the first, the last, several
KeySample == {{0}, {15}, {9}, {3, 7}, {2 + RegEdge, 15}}

KeyWords(x) ==
    <<24576 + 5, 61440 + 21, 24576 + 256 * x + 170, 61440 + 256 * x + 10,
      Halt(4)>>

KeyRoms == {RomOf(KeyWords(x)) : x \in RegSample}

InitKey == \E rom \in KeyRoms : Boot(rom, CLAMP)

NextKey ==
    \/ Cycle_ld
    \/ Cycle_ld_reg_to_delay
    \/ Cycle_getkey
    \/ Cycle_jmp
    \/ \E keys \in KeySample : KeyPress(keys)

SpecKey == InitKey /\ [][NextKey]_vars

\* ------------------------------------------------------------------------
\* Programs of one word whose two bytes differ, or are equal, run on hosts of
\* either byte order
\* ------------------------------------------------------------------------
HostOrders == {"little", "big"}

\* 6X05, 6160, 6F6F, A1A1, 00A2, 1204
FetchWords ==
    {24576 + 256 * x + 5 : x \in RegSample}
        \cup {24928, 28527, 41377, 162, 4096 + PC_INITIAL + 4}

FetchRoms == {RomOf(<<w, Halt(1)>>) : w \in FetchWords}

InitFetch ==
    \E rom \in FetchRoms : \E order \in HostOrders :
        BootOn(rom, CLAMP, 200, 1, order)

NextFetch ==
    \/ Cycle_ld
    \/ Cycle_ld_addr
    \/ Cycle_jmp
    \/ Cycle_chip8_syscall

SpecFetch == InitFetch /\ [][NextFetch]_vars

\* ------------------------------------------------------------------------
\* Programs of one sprite-address lookup: set I, load Vx, FX29
\* ------------------------------------------------------------------------
\* Vx: every digit, the values behind the last digit, and the byte samples
DigitSample == (0..(REGISTER_COUNT + ByteEdge)) \cup ByteSample

SpriteWords(x, v) ==
    <<40960 + 291, 24576 + 256 * x + v, 61440 + 256 * x + 41, Halt(3)>>

SpriteRoms == {RomOf(SpriteWords(x, v)) : x \in RegSample, v \in DigitSample}

InitSprite == \E rom \in SpriteRoms : Boot(rom, CLAMP)

NextSprite ==
    \/ Cycle_ld_addr
    \/ Cycle_ld
    \/ Cycle_ld_sprite
    \/ Cycle_jmp

SpecSprite == InitSprite /\ [][NextSprite]_vars

\* ------------------------------------------------------------------------
\* Programs that count in a loop until the user closes the window: load V0,
\* then 7001 and a jump back to it
\* ------------------------------------------------------------------------
StopWords(v) == <<24576 + v, 28672 + 1, 4096 + PC_INITIAL + 2>>

StopRoms == {RomOf(StopWords(v)) : v \in ByteSample}

InitStop == \E rom \in StopRoms : Boot(rom, CLAMP)

NextStop ==
    \/ Cycle_ld
    \/ Cycle_add
    \/ Cycle_jmp
    \/ QuitRequest

SpecStop == InitStop /\ [][NextStop]_vars

\* ------------------------------------------------------------------------
\* Properties of call and return
\* ------------------------------------------------------------------------
IsCall(e) == e.opcode \div 4096 = 2

IsRet(e) == e.opcode = 238

RECURSIVE CallRun(_)
\* the number of successful calls in a row from trace entry i on
CallRun(i) ==
    IF i <= Len(trace) /\ IsCall(trace[i]) /\ trace[i].ok
    THEN 1 + CallRun(i + 1) ELSE 0

RECURSIVE RetRun(_)
\* the number of successful returns in a row from trace entry i on
RetRun(i) ==
    IF i <= Len(trace) /\ IsRet(trace[i]) /\ trace[i].ok
    THEN 1 + RetRun(i + 1) ELSE 0

\* C1: after N <= 24 calls from an empty stack, the k-th return sets the
\* program counter to the post-fetch address (call address + 2) of the k-th
\* last call, and the N-th return leaves the stack empty.
C1_CallRetRoundTrip ==
    \A n \in {CallRun(1)} : \A m \in {RetRun(n + 1)} :
        n \in 1..STACK_SIZE =>
            /\ \A k \in 1..m :
                  k <= n => trace[n + k].pc = trace[n - k + 1].at + OPCODE_SIZE
            /\ (m = n /\ Len(trace) = 2 * n)
                  => (stack_register = 0 /\ pc = trace[1].at + OPCODE_SIZE)

C1_Witness ==
    /\ CallRun(1) = STACK_SIZE
    /\ RetRun(STACK_SIZE + 1) = STACK_SIZE
    /\ Len(trace) = 2 * STACK_SIZE
    /\ stack_register = 0

\* C2: the stack depth stays within 0..24; a call at depth 24 halts fatally
\* and writes no stack slot; a return at depth 0 halts fatally and leaves the
\* program counter at its post-fetch value; a halted machine takes no step.
C2_StackDepthBounded ==
    /\ [](stack_register \in 0..STACK_SIZE)
    /\ [][/\ exit_status = "none"
          /\ (Dispatches("call") /\ stack_register = STACK_SIZE)
                => /\ exit_status' = "EXIT_FAILURE"
                   /\ ~running'
                   /\ stack' = stack
                   /\ stack_register' = stack_register
                   /\ pc' = u16(pc + OPCODE_SIZE)
          /\ (Dispatches("ret") /\ stack_register = 0)
                => /\ exit_status' = "EXIT_FAILURE"
                   /\ ~running'
                   /\ stack' = stack
                   /\ stack_register' = stack_register
                   /\ pc' = u16(pc + OPCODE_SIZE)]_vars

C2_Witness ==
    /\ exit_status = "EXIT_FAILURE"
    /\ ~running
    /\ stack_register = STACK_SIZE
    /\ Len(trace) = STACK_SIZE + 1
    /\ \A i \in 1..Len(trace) : IsCall(trace[i])


\* ------------------------------------------------------------------------
\* Properties of the register-register instructions
\* ------------------------------------------------------------------------
\* the word the next cycle fetches
Opcode == fetch(State, Input0(ticks, keystates))

\* the entry of the cycle executed last
Last == trace[Len(trace)]

FlagHandlers == {"add_reg", "sub_reg", "shr_reg", "subn_reg", "shl_reg"}

\* C3: after any of 8XY4, 8XY5, 8XY6, 8XY7, 8XYE, for every X and Y in 0..15,
\* the flag register holds 0 or 1.
C3_FlagIsBit ==
    (trace # <<>> /\ handler_of(Last.opcode) \in FlagHandlers /\ Last.ok)
        => registers[15] \in {0, 1}

\* C4: 8XY4 with X and Y in 0..14 (X = Y included) leaves (old Vx + old Vy)
\* mod 256 in Vx and sets the flag to 1 exactly when the sum exceeds 255.
C4_AddCarry ==
    [][(Dispatches("add_reg") /\ X(Opcode) <= 14 /\ Y(Opcode) <= 14)
         => /\ registers'[X(Opcode)]
                 = (registers[X(Opcode)] + registers[Y(Opcode)]) % 256
            /\ registers'[15]
                 = IF registers[X(Opcode)] + registers[Y(Opcode)] > 255
                   THEN 1 ELSE 0]_vars

\* C5: 8XY5 and 8XY7 with X and Y in 0..14 set the flag to 1 if the
\* subtraction borrows (old Vx < old Vy for 8XY5, old Vy < old Vx for 8XY7)
\* and to 0 otherwise, and leave the difference mod 256 in Vx.
C5_SubBorrow ==
    [][/\ (Dispatches("sub_reg") /\ X(Opcode) <= 14 /\ Y(Opcode) <= 14)
            => /\ registers'[15]
                    = IF registers[X(Opcode)] < registers[Y(Opcode)]
                      THEN 1 ELSE 0
               /\ registers'[X(Opcode)]
                    = (registers[X(Opcode)] - registers[Y(Opcode)]) % 256
       /\ (Dispatches("subn_reg") /\ X(Opcode) <= 14 /\ Y(Opcode) <= 14)
            => /\ registers'[15]
                    = IF registers[Y(Opcode)] < registers[X(Opcode)]
                      THEN 1 ELSE 0
               /\ registers'[X(Opcode)]
                    = (registers[Y(Opcode)] - registers[X(Opcode)]) % 256]_vars


\* ------------------------------------------------------------------------
\* Properties of draw
\* ------------------------------------------------------------------------
\* C6: under either coordinate policy draw never fails a bounds assertion of
\* display_idx and never touches a display cell outside 0..2047.
C6_DrawInBounds ==
    /\ \A e \in oob : e[1] # "display"
    /\ DOMAIN display = 0..(DISPLAY_WIDTH * DISPLAY_HEIGHT - 1)
    /\ (trace # <<>> /\ handler_of(Last.opcode) = "draw") => Last.ok

\* a draw at the bottom right corner lit the last cell of the buffer
C6_Witness ==
    /\ trace # <<>>
    /\ handler_of(Last.opcode) = "draw"
    /\ Last.ok
    /\ display[DISPLAY_WIDTH * DISPLAY_HEIGHT - 1] = 1
    /\ trace[2].opcode % 256 = DISPLAY_WIDTH - 1
    /\ trace[3].opcode % 256 = DISPLAY_HEIGHT - 1

\* the display cells the claim expects DXYN to toggle under the clamp policy:
\* one for every set bit whose true coordinate lies on the screen
ClampToggles ==
    {display_idx(registers[X(Opcode)] + c, registers[Y(Opcode)] + r) :
        <<r, c>> \in
            {rc \in (0..(N(Opcode) - 1)) \X (0..7) :
                /\ Bit(memory[address_register + rc[1]], 7 - rc[2]) = 1
                /\ registers[X(Opcode)] + rc[2] < DISPLAY_WIDTH
                /\ registers[Y(Opcode)] + rc[1] < DISPLAY_HEIGHT}}

\* C7: under the clamp policy, for every Vx and Vy in 0..255, DXYN toggles the
\* cell (Vx + c, Vy + r) of every set sprite bit with Vx + c < 64 and
\* Vy + r < 32, and modifies no other display cell.
C7_ClampDraw ==
    [][(Dispatches("draw") /\ displaymode = CLAMP)
         => \E toggled \in {ClampToggles} :
               \A k \in DOMAIN display :
                   (display'[k] # display[k]) <=> (k \in toggled)]_vars

\* C8: after DXYN the flag is 1 if the instruction turned at least one display
\* cell from 1 to 0 and 0 if it turned none, for every X and Y.
C8_CollisionFlag ==
    [][Dispatches("draw")
         => registers'[15]
              = IF \E k \in DOMAIN display : display[k] = 1 /\ display'[k] = 0
                THEN 1 ELSE 0]_vars

\* a second draw whose X is the flag register collided
C8_Witness ==
    /\ Len(trace) >= 5
    /\ handler_of(Last.opcode) = "draw"
    /\ X(Last.opcode) = 15
    /\ registers[15] = 1
    /\ \E k \in DOMAIN display : display[k] = 1

\* ------------------------------------------------------------------------
\* Properties of the register block store and load
\* ------------------------------------------------------------------------
\* the handlers that write memory
MemoryWriters == {"reg_dump", "bcd"}

\* the registers and the address register the k-th cycle left behind
RegistersAfter(k) ==
    IF k < Len(trace) THEN trace[k + 1].registers ELSE registers

AddressAfter(k) ==
    IF k < Len(trace) THEN trace[k + 1].address_register ELSE address_register

IsDump(e) == handler_of(e.opcode) = "reg_dump"

IsLoad(e) == handler_of(e.opcode) = "reg_load"

Fits(e) == e.address_register + X(e.opcode) <= MEMORY_SIZE - 1

\* C9: with I + N <= 4095, FN55 followed later by FN65 with the same I and N
\* and no write to memory in between restores V0..VN to the values they had
\* at the store; neither instruction changes I or a register above VN.
C9_BlockRoundTrip ==
    /\ \A k \in 1..Len(trace) :
          ((IsDump(trace[k]) \/ IsLoad(trace[k])) /\ Fits(trace[k]))
            => /\ AddressAfter(k) = trace[k].address_register
               /\ \A r \in (X(trace[k].opcode) + 1)..(REGISTER_COUNT - 1) :
                     RegistersAfter(k)[r] = trace[k].registers[r]
    /\ \A d \in 1..Len(trace) : \A l \in (d + 1)..Len(trace) :
          (/\ IsDump(trace[d]) /\ IsLoad(trace[l]) /\ Fits(trace[d])
           /\ X(trace[d].opcode) = X(trace[l].opcode)
           /\ trace[d].address_register = trace[l].address_register
           /\ \A k \in (d + 1)..(l - 1) :
                 handler_of(trace[k].opcode) \notin MemoryWriters)
            => \A r \in 0..X(trace[d].opcode) :
                  RegistersAfter(l)[r] = trace[d].registers[r]

\* sixteen registers stored at the last address they fit at came back after
\* V0, VE and VF had been overwritten
C9_Witness ==
    /\ Len(trace) = 9
    /\ IsDump(trace[5]) /\ IsLoad(trace[9])
    /\ X(trace[5].opcode) = REGISTER_COUNT - 1
    /\ X(trace[9].opcode) = REGISTER_COUNT - 1
    /\ trace[5].address_register = MEMORY_SIZE - REGISTER_COUNT
    /\ trace[9].ok
    /\ \A r \in {0, 14, 15} :
          /\ trace[9].registers[r] # trace[5].registers[r]
          /\ registers[r] = trace[5].registers[r]

\* C10: FX55 and FX65 fail fatally whenever I + N > 4095, and then access no
\* memory cell outside 0..4095.
C10_BlockTransferChecked ==
    [][((Dispatches("reg_dump") \/ Dispatches("reg_load"))
          /\ address_register + X(Opcode) > MEMORY_SIZE - 1)
         => /\ exit_status' = "EXIT_FAILURE"
            /\ oob' = oob]_vars

\* ------------------------------------------------------------------------
\* Properties of the address register and of memory accesses
\* ------------------------------------------------------------------------
\* C11: every access to memory (the fetch, the sprite rows of draw, the three
\* stores of bcd) addresses a cell in 0..4095, or the machine halts before it.
C11_MemoryAccessInBounds == \A e \in oob : e[1] # "memory"

\* C19: with I + 2 <= 4095, FX33 stores the hundreds, tens and units of Vx at
\* I, I + 1 and I + 2 and changes no other memory cell, no register and not I.
C19_BcdDigits ==
    [][(Dispatches("bcd") /\ address_register + 2 <= MEMORY_SIZE - 1)
         => /\ memory'
                 = [memory EXCEPT
                      ![address_register] = registers[X(Opcode)] \div 100,
                      ![address_register + 1]
                           = (registers[X(Opcode)] \div 10) % 10,
                      ![address_register + 2] = registers[X(Opcode)] % 10]
            /\ registers' = registers
            /\ address_register' = address_register]_vars

\* the value 199 was expanded to (1, 9, 9)
C19_Witness ==
    /\ trace # <<>>
    /\ handler_of(Last.opcode) = "bcd"
    /\ Last.ok
    /\ registers[X(Last.opcode)] = 199
    /\ address_register + 2 <= MEMORY_SIZE - 1
    /\ memory[address_register] = 1
    /\ memory[address_register + 1] = 9
    /\ memory[address_register + 2] = 9

\* C20: for every X, FX1E leaves old I + old Vx in I and sets the flag to 1
\* exactly when old I + old Vx exceeds 0x0FFF.
C20_AddAddr ==
    [][Dispatches("add_addr")
         => /\ address_register' = address_register + registers[X(Opcode)]
            /\ registers'[15]
                 = IF address_register + registers[X(Opcode)] > 4095
                   THEN 1 ELSE 0]_vars

\* ------------------------------------------------------------------------
\* Properties of the dispatch and of the display buffer
\* ------------------------------------------------------------------------
\* the words that encode one of the defined instructions: 00E0, 00EE, 1NNN
\* to 4XNN, 5XY0, 6XNN, 7XNN, 8XY0..8XY7, 8XYE, 9XY0, ANNN to DXYN, EX9E,
\* EXA1 and the nine FXnn
DefinedWord(w) ==
    LET class == w \div 4096
    IN CASE class = 0 -> w \in {224, 238}
         [] class \in {5, 9} -> N(w) = 0
         [] class = 8 -> N(w) \in (0..7) \cup {14}
         [] class = 14 -> NN(w) \in {158, 161}
         [] class = 15 -> NN(w) \in {7, 10, 21, 24, 30, 41, 51, 85, 101}
         [] OTHER -> TRUE

\* C12: every word that encodes no defined instruction halts the machine
\* fatally when executed; after 00E0 such a word ends the run with an all-zero
\* display and a fatal halt on the second instruction.
C12_UnknownOpcodeFatal ==
    [][~DefinedWord(Opcode)
         => /\ exit_status' = "EXIT_FAILURE"
            /\ display' = display]_vars

BlankDisplay == \A k \in DOMAIN display : display[k] = 0

\* C17: every display cell is 0 or 1; a cell changes only by a toggle inside
\* DXYN or by 00E0, which zeroes all 2048 cells; every other instruction
\* leaves the display unchanged.
C17_DisplayFrame ==
    /\ [](\A k \in DOMAIN display : display[k] \in {0, 1})
    /\ [][/\ Dispatches("cls") => \A k \in DOMAIN display : display'[k] = 0
          /\ (display' # display)
               => (Dispatches("draw") \/ Dispatches("cls"))]_vars

\* the screen-clear instruction zeroed a display a glyph had been drawn on
C17_Witness ==
    /\ Len(trace) = 2
    /\ trace[1].opcode = 53253
    /\ trace[1].ok
    /\ trace[2].opcode = 224
    /\ trace[2].ok
    /\ BlankDisplay

\* ------------------------------------------------------------------------
\* Properties of the program counter
\* ------------------------------------------------------------------------
\* C16: the program counter is even in every reachable state.
C16_PcAligned == pc % OPCODE_SIZE = 0

\* C18: 1NNN at address A with NNN = A halts fatally without setting the
\* program counter to A; with NNN # A it sets the program counter to NNN.
C18_SelfJumpGuard ==
    [][Dispatches("jmp")
         => IF NNN(Opcode) = pc
            THEN exit_status' = "EXIT_FAILURE" /\ pc' # pc
            ELSE exit_status' = "none" /\ pc' = NNN(Opcode)]_vars

\* a jump to another address was taken and the jump to itself found there
\* was rejected
C18_Witness ==
    /\ Len(trace) >= 3
    /\ \E k \in 1..(Len(trace) - 1) :
          /\ handler_of(trace[k].opcode) = "jmp"
          /\ trace[k].ok
          /\ NNN(trace[k].opcode) # trace[k].at
          /\ trace[k].pc = NNN(trace[k].opcode)
    /\ handler_of(Last.opcode) = "jmp"
    /\ NNN(Last.opcode) = Last.at
    /\ exit_status = "EXIT_FAILURE"
    /\ pc = Last.at + OPCODE_SIZE

\* ------------------------------------------------------------------------
\* Properties of the timers
\* ------------------------------------------------------------------------
IsSetDelay(e) == handler_of(e.opcode) = "ld_reg_to_delay"

\* the cycle that set the delay timer to 120 and was not followed by another
\* write of it
SetsDelay120(k) ==
    /\ IsSetDelay(trace[k])
    /\ trace[k].registers[X(trace[k].opcode)] = 120
    /\ \A m \in (k + 1)..Len(trace) : ~IsSetDelay(trace[m])

\* C14: a delay timer set to 120 and not rewritten is decremented 60 times
\* per elapsed second of wall-clock time whatever --ips is: after T ms the
\* number of decrements is within two of 60 * T / 1000.
C14_TimerRate ==
    \A k \in 1..Len(trace) :
        SetsDelay120(k)
          => \E T \in {Last.now - trace[k].now} :
             \E D \in {120 - delay_timer} :
                /\ 1000 * D <= TIMER_RATE * T + 2000
                /\ 1000 * D >= TIMER_RATE * T - 2000

\* the timer driver decrements in this iteration of the loop
TimerTick == ticks - timer_start >= 1000 \div TIMER_RATE

Decremented(v) == IF v # 0 THEN v - 1 ELSE 0

\* C15: on a timer tick each non-zero timer decreases by exactly 1 and a
\* timer at 0 stays 0; otherwise a timer changes only by its own write
\* instruction (FX15, FX18); neither timer depends on the other.
C15_TimersNeverNegative ==
    /\ [](delay_timer \in 0..255 /\ sound_timer \in 0..255)
    /\ [][/\ delay_timer'
               = IF trace' = trace THEN delay_timer
                 ELSE IF Dispatches("ld_reg_to_delay")
                      THEN registers[X(Opcode)]
                 ELSE IF TimerTick THEN Decremented(delay_timer)
                 ELSE delay_timer
          /\ sound_timer'
               = IF trace' = trace THEN sound_timer
                 ELSE IF Dispatches("ld_sound") THEN registers[X(Opcode)]
                 ELSE IF TimerTick THEN Decremented(sound_timer)
                 ELSE sound_timer]_vars

\* both timers were set to small values, ran down to 0 at different times and
\* stayed there through later ticks
C15_Witness ==
    /\ Len(trace) >= 5
    /\ IsSetDelay(trace[3])
    /\ trace[3].registers[0] \in 1..3
    /\ trace[4].registers[1] \in 1..4
    /\ trace[3].registers[0] # trace[4].registers[1]
    /\ Last.now - trace[4].now >= 8 * (1000 \div TIMER_RATE)
    /\ TimerTick
    /\ delay_timer = 0
    /\ sound_timer = 0

\* ------------------------------------------------------------------------
\* Properties of the key wait
\* ------------------------------------------------------------------------
LowestLine(keys) == CHOOSE k \in keys : \A j \in keys : k <= j

\* C13: FX0A executed while no input line is asserted leaves the program
\* counter at its own address and every register unchanged while the timers
\* go on being decremented; executed while some line is asserted it stores the
\* lowest asserted line in Vx and moves on to the next instruction.
C13_KeyWait ==
    [][(Dispatches("getkey") /\ trace' # trace)
         => IF keystates = {}
            THEN /\ pc' = pc
                 /\ registers' = registers
                 /\ delay_timer' = IF TimerTick THEN Decremented(delay_timer)
                                   ELSE delay_timer
                 /\ exit_status' = "none"
            ELSE /\ pc' = pc + 2
                 /\ registers'
                      = [registers EXCEPT ![X(Opcode)] = LowestLine(keystates)]
                 /\ exit_status' = "none"]_vars

\* the wait was repeated while the delay timer ran down, and ended with the
\* lower of two asserted lines in Vx
C13_Witness ==
    /\ Len(trace) >= 6
    /\ handler_of(Last.opcode) = "getkey"
    /\ handler_of(trace[4].opcode) = "getkey"
    /\ trace[4].pc = trace[4].at
    /\ trace[5].at = trace[4].at
    /\ delay_timer < 5
    /\ keystates = {3, 7}
    /\ registers[X(Last.opcode)] = 3
    /\ pc = Last.at + 2

\* ------------------------------------------------------------------------
\* Properties of fetch and decode
\* ------------------------------------------------------------------------
\* the instruction word at the program counter, read big-endian
BigEndianWord == memory[pc] * 256 + memory[pc + 1]

\* C21: whatever the byte order of the host, the word executed is
\* memory[pc] * 256 + memory[pc + 1]; its class is bits 15..12, NNN the low
\* 12 bits, NN the low 8 bits, X bits 11..8; the handler runs with the
\* program counter already advanced by 2.
C21_FetchDecode ==
    [][(trace' # trace /\ pc + 1 < MEMORY_SIZE)
         => \E w \in {BigEndianWord} :
              /\ trace'[Len(trace')].opcode = w
              /\ (w \div 4096 = 6)
                   => /\ registers'
                           = [registers EXCEPT ![(w \div 256) % 16] = w % 256]
                      /\ pc' = pc + 2
              /\ (w \div 4096 = 10)
                   => /\ address_register' = w % 4096
                      /\ pc' = pc + 2
              /\ (w \div 4096 = 1)
                   => IF w % 4096 = pc
                      THEN exit_status' = "EXIT_FAILURE" /\ pc' = pc + 2
                      ELSE pc' = w % 4096]_vars

\* ------------------------------------------------------------------------
\* Properties of the sprite-address lookup
\* ------------------------------------------------------------------------
\* C22: FX29 with Vx in 0..15 sets I to 5 * Vx, where the five rows of that
\* digit's glyph lie in the font table at memory 0..79; with Vx > 15 the
\* machine halts fatally and I is unchanged.
C22_SpriteAddress ==
    [][Dispatches("ld_sprite")
         => IF registers[X(Opcode)] <= 15
            THEN /\ exit_status' = "none"
                 /\ address_register' = 5 * registers[X(Opcode)]
                 /\ address_register' + 4 <= 79
                 /\ \A r \in 0..4 :
                       memory'[address_register' + r]
                         = sprites[5 * registers[X(Opcode)] + r + 1]
            ELSE /\ exit_status' = "EXIT_FAILURE"
                 /\ address_register' = address_register]_vars

\* the lookup of the last digit left the address of the glyph "F" in I
C22_Witness ==
    /\ trace # <<>>
    /\ handler_of(Last.opcode) = "ld_sprite"
    /\ Last.ok
    /\ registers[X(Last.opcode)] = 15
    /\ Last.address_register = 291
    /\ address_register = 75
    /\ memory[address_register] = 240
    /\ memory[address_register + 4] = 128

\* ------------------------------------------------------------------------
\* Properties of the host-requested stop
\* ------------------------------------------------------------------------
\* C23: in the iteration of the loop that observes the stop request no
\* instruction is fetched or executed, and registers, memory, the program
\* counter, the stack and the display are not changed again.
C23_StopHalts ==
    [][quit_event
         => /\ trace' = trace
            /\ registers' = registers
            /\ memory' = memory
            /\ pc' = pc
            /\ stack' = stack
            /\ stack_register' = stack_register
            /\ display' = display]_vars

====
